---- MODULE Spec2Model ----
(***************************************************************************)
(* Smart-Document-Digitizer: the page pipeline of src/App.tsx.             *)
(*                                                                         *)
(* The state is the React state of App (pages, selectedPageId,             *)
(* globalStatus) together with the asynchronous work in flight: the        *)
(* ingestions awaiting their files, the extraction-service calls awaiting  *)
(* their response, and the batches awaiting Promise.all; downloads is what  *)
(* the export buttons have produced so far, in order, and apiKey tells     *)
(* whether the build defines process.env.API_KEY.  Every action is         *)
(* one synchronous run of a handler or of a continuation after an await.   *)
(* The guards of the user actions are the conditions under which App       *)
(* renders (and enables) the control that fires the handler.               *)
(*                                                                         *)
(* A nullable value is a sequence of length 0 (null / undefined) or 1.     *)
(* A row is the sequence of its <<key, value>> entries in insertion order, *)
(* as a JavaScript object keeps them.                                      *)
(* Page ids come from Math.random().  IdSpec follows the draws themselves; *)
(* the other specifications follow the sessions whose draws are distinct,  *)
(* where a page id is a fresh value.                                       *)
(* The extraction service answers with rows or throws, as its signature    *)
(* Promise<ExtractedDataRow[]> says.                                       *)
(***************************************************************************)
EXTENDS Naturals, Sequences, FiniteSets, Bags, TLC

VARIABLES pages, selectedPageId, globalStatus, uploads, singles, batches, nextId,
          downloads, apiKey

vars ==
  <<pages, selectedPageId, globalStatus, uploads, singles, batches, nextId, downloads,
    apiKey>>

----------------------------------------------------------------------------
(* Bounds *)

\* pages ingested over the whole session
MaxIds == 2
\* ingestions in progress at one time
MaxUploads == 1
\* pages of a session that is only batch-processed
MaxBatchPages == 4
\* pages ingested over a session of ingestions alone
MaxIngestIds == 3
\* pages of a session whose batch is about to be reconciled
MaxReconPages == 4
\* pages of a session whose extractions meet every answer of the service
MaxServicePages == 2
\* pages of a session whose service answers by the image it was sent
MaxEchoPages == 2
\* pages of a session that is batch-processed and exported
MaxExportPages == 2
\* clicks on the export buttons over a session
MaxExports == 1

----------------------------------------------------------------------------
(* Values *)

Null == <<>>
Undefined == <<>>
Some(x) == <<x>>
Truthy(o) == o # Null
NoId == 0

Entry(k, v) == [k |-> k, v |-> v]

\* The answers of the extraction service (geminiService.ts: JSON.parse of
\* the response text).
Tables ==
  { << <<Entry("name", "x")>> >>,
    << <<Entry("name", "y"), Entry("city", "z")>>,
       <<Entry("name", "w"), Entry("city", "v")>> >> }

\* The JSON value null: a row value is string | number | boolean | null.
JsNull == "<null>"

\* The answers the reconciler is applied to: those above, an empty array, and
\* rows of unequal columns, one of them holding a null.
ReconTables ==
  Tables \cup
    { <<>>,
      << <<Entry("name", "y"), Entry("city", JsNull)>>,
         <<Entry("zip", "1")>> >> }

\* The messages of the errors extractGenericTable throws.
ErrMsgs == {"Empty response from Gemini"}

\* The filter settings a user can apply in the image processor.
Filters == {"rot90"}

PdfFile(name, n, ok) == [name |-> name, type |-> "application/pdf", n |-> n, ok |-> ok]
ImgFile(name, ok) == [name |-> name, type |-> "image/png", n |-> 1, ok |-> ok]
OtherFile(name) == [name |-> name, type |-> "text/plain", n |-> 0, ok |-> TRUE]

\* The file lists a user drops or picks: an image alone, and an image after a
\* file of another type and a PDF that pdf.js fails to open.
UploadChoices ==
  { <<ImgFile("a.png", TRUE)>>,
    <<OtherFile("c.txt"), PdfFile("d.pdf", 2, FALSE), ImgFile("a.png", TRUE)>> }

\* The file lists of an ingestion followed on its own: PDFs of one and two
\* pages, images, a file of another type, a PDF and an image that fail to
\* decode.
IngestChoices ==
  { <<ImgFile("a.png", TRUE)>>,
    <<PdfFile("b.pdf", 2, TRUE)>>,
    <<PdfFile("p.pdf", 1, TRUE), ImgFile("q.png", TRUE)>>,
    <<OtherFile("c.txt"), PdfFile("d.pdf", 2, FALSE), ImgFile("f.png", FALSE),
      ImgFile("g.png", TRUE)>>,
    <<ImgFile("f.png", FALSE)>> }

IsImageType(t) == t \in {"image/png", "image/jpeg", "image/webp"}

----------------------------------------------------------------------------
(* Sequence helpers *)

RemoveAt(s, i) == [j \in 1..(Len(s) - 1) |-> IF j < i THEN s[j] ELSE s[j + 1]]

MapPages(pgs, id, F(_)) ==
  [i \in 1..Len(pgs) |-> IF pgs[i].id = id THEN F(pgs[i]) ELSE pgs[i]]

\* An operator applied to the values of its arguments: TLC evaluates an
\* argument expression again at every use in the operator's body, a bound
\* variable only once.
Bind2(a, b, Op(_, _)) == CHOOSE r \in {Op(x, y) : x \in {a}, y \in {b}} : TRUE
Bind3(a, b, c, Op(_, _, _)) ==
  CHOOSE r \in {Op(x, y, z) : x \in {a}, y \in {b}, z \in {c}} : TRUE
Bind4(a, b, c, d, Op(_, _, _, _)) ==
  CHOOSE r \in {Op(x, y, z, w) : x \in {a}, y \in {b}, z \in {c}, w \in {d}} : TRUE

\* The bag holding x once.
One(x) == SetToBag({x})

HasKey(row, h) == \E j \in 1..Len(row) : row[j].k = h

----------------------------------------------------------------------------
(* checkConsistency, App.tsx 79-131 *)

\* p.status === 'complete' && p.extractedData
Eligible(p) == p.status = "complete" /\ Truthy(p.extractedData)

\* allHeaders.add(k): a Set keeps the first insertion of every key.
AddKey(hdr, k) ==
  IF Len(SelectSeq(hdr, LAMBDA x : x = k)) > 0 THEN hdr ELSE Append(hdr, k)

\* Object.keys(row).forEach(k => allHeaders.add(k))
RECURSIVE AddRowKeys(_, _)
AddRowKeys(hdr, row) ==
  IF row = <<>> THEN hdr
  ELSE Bind2(AddKey(hdr, Head(row).k), Tail(row), AddRowKeys)

\* p.extractedData?.forEach(row => ...)
RECURSIVE AddTableKeys(_, _)
AddTableKeys(hdr, rows) ==
  IF rows = <<>> THEN hdr
  ELSE Bind2(AddRowKeys(hdr, Head(rows)), Tail(rows), AddTableKeys)

\* completedPages.forEach(p => ...)
RECURSIVE AllHeaders(_, _)
AllHeaders(hdr, completedPages) ==
  IF completedPages = <<>> THEN hdr
  ELSE Bind2(AddTableKeys(hdr, Head(completedPages).extractedData[1]),
             Tail(completedPages), AllHeaders)

\* countsMap.set(c, freq)
MapSet(countsMap, c, freq) ==
  [x \in (DOMAIN countsMap) \cup {c} |-> IF x = c THEN freq ELSE countsMap[x]]

\* (countsMap.get(c) || 0) + 1
NextFreq(countsMap, c) == (IF c \in DOMAIN countsMap THEN countsMap[c] ELSE 0) + 1

\* a scan that takes the last count to reach the highest frequency
RECURSIVE ModeScan_LastMax(_, _, _, _)
ModeScan_LastMax(rowCounts, countsMap, maxFreq, modeCount) ==
  IF rowCounts = <<>> THEN modeCount
  ELSE IF NextFreq(countsMap, Head(rowCounts)) >= maxFreq
    THEN Bind4(Tail(rowCounts),
               MapSet(countsMap, Head(rowCounts), NextFreq(countsMap, Head(rowCounts))),
               NextFreq(countsMap, Head(rowCounts)), Head(rowCounts), ModeScan_LastMax)
    ELSE Bind4(Tail(rowCounts),
               MapSet(countsMap, Head(rowCounts), NextFreq(countsMap, Head(rowCounts))),
               maxFreq, modeCount, ModeScan_LastMax)

\* The forEach over rowCounts: countsMap, maxFreq and modeCount.
RECURSIVE ModeScan(_, _, _, _)
ModeScan(rowCounts, countsMap, maxFreq, modeCount) ==
  IF rowCounts = <<>> THEN modeCount
  ELSE IF NextFreq(countsMap, Head(rowCounts)) > maxFreq
    THEN Bind4(Tail(rowCounts),
               MapSet(countsMap, Head(rowCounts), NextFreq(countsMap, Head(rowCounts))),
               NextFreq(countsMap, Head(rowCounts)), Head(rowCounts), ModeScan)
    ELSE Bind4(Tail(rowCounts),
               MapSet(countsMap, Head(rowCounts), NextFreq(countsMap, Head(rowCounts))),
               maxFreq, modeCount, ModeScan)

EmptyMap == [x \in {} |-> 0]

\* a mode that is the row count of the first eligible page
ModeCount_First(rowCounts) == rowCounts[1]

\* let maxFreq = 0; let modeCount = rowCounts[0]
ModeCount(rowCounts) == ModeScan(rowCounts, EmptyMap, 0, rowCounts[1])

\* newRow[h] = null in place of ""
FillMissing_Null(row, h) == IF HasKey(row, h) THEN row ELSE Append(row, Entry(h, JsNull))

\* if (!newRow[h]) newRow[h] = "": a null value is taken for a missing column
FillMissing_Overwrite(row, h) ==
  IF HasKey(row, h)
    THEN [j \in 1..Len(row) |->
            IF row[j].k = h /\ row[j].v = JsNull THEN Entry(h, "") ELSE row[j]]
    ELSE Append(row, Entry(h, ""))

\* if (!(h in newRow)) newRow[h] = ""
FillMissing(row, h) == IF HasKey(row, h) THEN row ELSE Append(row, Entry(h, ""))

\* const newRow = { ...row }; headerArray.forEach(h => ...)
RECURSIVE NormalizeRow(_, _)
NormalizeRow(row, headerArray) ==
  IF headerArray = <<>> THEN row
  ELSE Bind2(FillMissing(row, Head(headerArray)), Tail(headerArray), NormalizeRow)

Warning(found, expected) == [found |-> found, expected |-> expected]

\* a body that also clears the message of an earlier failure
ReconcilePage_ClearsError(p, headerArray, modeCount) ==
  IF ~Eligible(p) THEN p
  ELSE LET rows == p.extractedData[1]
           normalizedData == [r \in 1..Len(rows) |-> NormalizeRow(rows[r], headerArray)]
           warning == IF Len(normalizedData) # modeCount
                        THEN Some(Warning(Len(normalizedData), modeCount))
                        ELSE Undefined
       IN [p EXCEPT !.extractedData = Some(normalizedData),
                    !.consistencyWarning = warning,
                    !.errorMessage = Null]

\* a body that takes back the warning of a page that already carries one
ReconcilePage_Toggle(p, headerArray, modeCount) ==
  IF ~Eligible(p) THEN p
  ELSE LET rows == p.extractedData[1]
           normalizedData == [r \in 1..Len(rows) |-> NormalizeRow(rows[r], headerArray)]
           warning == IF Len(normalizedData) # modeCount /\ ~Truthy(p.consistencyWarning)
                        THEN Some(Warning(Len(normalizedData), modeCount))
                        ELSE Undefined
       IN [p EXCEPT !.extractedData = Some(normalizedData),
                    !.consistencyWarning = warning]

\* The body of currentPages.map, lines 107-130.
ReconcilePage(p, headerArray, modeCount) ==
  IF ~Eligible(p) THEN p
  ELSE LET rows == p.extractedData[1]
           normalizedData == [r \in 1..Len(rows) |-> NormalizeRow(rows[r], headerArray)]
           warning == IF Len(normalizedData) # modeCount
                        THEN Some(Warning(Len(normalizedData), modeCount))
                        ELSE Undefined
       IN [p EXCEPT !.extractedData = Some(normalizedData),
                    !.consistencyWarning = warning]

RowCounts(completedPages) ==
  [i \in 1..Len(completedPages) |-> Len(completedPages[i].extractedData[1])]

ReconcileAll(currentPages, headerArray, modeCount) ==
  [i \in 1..Len(currentPages) |-> ReconcilePage(currentPages[i], headerArray, modeCount)]

\* a reconciler that commits the first eligible page only
checkConsistency_FirstOnly(currentPages) ==
  LET completedPages == SelectSeq(currentPages, Eligible)
  IN IF Len(completedPages) < 2 THEN currentPages
     ELSE Bind3(currentPages, AllHeaders(<<>>, completedPages),
                ModeCount(RowCounts(completedPages)),
                LAMBDA pgs, headerArray, modeCount :
                  [i \in 1..Len(pgs) |->
                     IF pgs[i].id = SelectSeq(pgs, Eligible)[1].id
                       THEN ReconcilePage(pgs[i], headerArray, modeCount)
                       ELSE pgs[i]])

\* a reconciler without the early return of line 81
checkConsistency_NoGuard(currentPages) ==
  LET completedPages == SelectSeq(currentPages, Eligible)
  IN IF Len(completedPages) < 1 THEN currentPages
     ELSE Bind3(currentPages, AllHeaders(<<>>, completedPages),
                ModeCount(RowCounts(completedPages)), ReconcileAll)

\* rowCounts taken over currentPages in place of completedPages
checkConsistency_CountsAll(currentPages) ==
  LET completedPages == SelectSeq(currentPages, Eligible)
  IN IF Len(completedPages) < 2 THEN currentPages
     ELSE Bind3(currentPages, AllHeaders(<<>>, completedPages),
                ModeCount([i \in 1..Len(currentPages) |->
                             IF Truthy(currentPages[i].extractedData)
                               THEN Len(currentPages[i].extractedData[1]) ELSE 0]),
                ReconcileAll)

checkConsistency(currentPages) ==
  LET completedPages == SelectSeq(currentPages, Eligible)
  IN IF Len(completedPages) < 2 THEN currentPages
     ELSE Bind3(currentPages, AllHeaders(<<>>, completedPages),
                ModeCount(RowCounts(completedPages)), ReconcileAll)

----------------------------------------------------------------------------
(* processUploadedFiles, App.tsx 172-217 *)

\* Image payloads: the source file, the PDF page (0 for an image file) and
\* the filter applied by the image processor.
Image(src, page, filter) == [src |-> src, page |-> page, filter |-> filter]
PdfImage(file, idx) == Image(file.name, idx, "none")
Base64(file) == Image(file.name, 0, "none")

NewPage(id, name, img) ==
  [id |-> id, name |-> name, originalImage |-> img, processedImage |-> Some(img),
   extractedData |-> Null, status |-> "idle", errorMessage |-> Null,
   consistencyWarning |-> Undefined]

\* names that count the pages of a PDF from 0
FilePages_ZeroBased(file, base) ==
  IF ~file.ok THEN <<>>
  ELSE IF file.type = "application/pdf"
    THEN [idx \in 1..file.n |->
            NewPage(base + idx, <<file.name, " - Page ", idx - 1>>, PdfImage(file, idx))]
  ELSE IF IsImageType(file.type)
    THEN <<NewPage(base + 1, <<file.name>>, Base64(file))>>
  ELSE <<>>

\* The records one file contributes; ids are taken from base + 1 on.
FilePages(file, base) ==
  IF ~file.ok THEN <<>>
  ELSE IF file.type = "application/pdf"
    THEN [idx \in 1..file.n |->
            NewPage(base + idx, <<file.name, " - Page ", idx>>, PdfImage(file, idx))]
  ELSE IF IsImageType(file.type)
    THEN <<NewPage(base + 1, <<file.name>>, Base64(file))>>
  ELSE <<>>

\* a loop inside the try: the first failure ends the ingestion of the list
RECURSIVE NewPages_AbortOnFailure(_, _, _)
NewPages_AbortOnFailure(files, acc, base) ==
  IF files = <<>> THEN acc
  ELSE IF ~Head(files).ok THEN acc
  ELSE Bind3(Tail(files), acc \o FilePages(Head(files), base + Len(acc)), base,
             NewPages_AbortOnFailure)

\* The loop over the files, pushing to newPages.
RECURSIVE NewPages(_, _, _)
NewPages(files, acc, base) ==
  IF files = <<>> THEN acc
  ELSE Bind3(Tail(files), acc \o FilePages(Head(files), base + Len(acc)), base, NewPages)

Yield(files) == Len(NewPages(files, <<>>, 0))

RECURSIVE PendingYield(_)
PendingYield(ups) ==
  IF ups = <<>> THEN 0 ELSE Yield(Head(ups)) + PendingYield(Tail(ups))

----------------------------------------------------------------------------
(* State *)

Init ==
  /\ pages = <<>>
  /\ selectedPageId = NoId
  /\ globalStatus = "idle"
  /\ uploads = <<>>
  /\ singles = EmptyBag
  /\ batches = EmptyBag
  /\ nextId = 1
  /\ downloads = <<>>
  /\ apiKey = TRUE

PageIds(pgs) == {pgs[i].id : i \in 1..Len(pgs)}

HasPage(pgs, id) == \E i \in 1..Len(pgs) : pgs[i].id = id

PageById(pgs, id) == pgs[CHOOSE i \in 1..Len(pgs) : pgs[i].id = id]

\* const selectedPage = state.pages.find(p => p.id === state.selectedPageId)
HasSelectedPage == HasPage(pages, selectedPageId)
selectedPage == PageById(pages, selectedPageId)

isGlobalProcessing ==
  globalStatus = "extracting" \/ \E i \in 1..Len(pages) : pages[i].status = "extracting"

Call(pageId, image) == [pageId |-> pageId, image |-> image]

----------------------------------------------------------------------------
(* processUploadedFiles *)

\* Up to the first await: the early return and globalStatus = 'uploading'.
StartUploadWithin(files, maxIds) ==
  /\ Len(files) # 0
  /\ Len(uploads) < MaxUploads
  /\ (nextId - 1) + PendingYield(uploads) + Yield(files) <= maxIds
  /\ globalStatus' = "uploading"
  /\ uploads' = Append(uploads, files)
  /\ UNCHANGED <<pages, selectedPageId, singles, batches, nextId, downloads, apiKey>>

StartUpload(files) == StartUploadWithin(files, MaxIds)

\* a commit that always selects the first new page
SelectAfterUpload_FirstNew(prevSelected, newPages) ==
  IF newPages # <<>> THEN newPages[1].id ELSE prevSelected

\* selectedPageId: prev.selectedPageId || newPages[0]?.id || null
SelectAfterUpload(prevSelected, newPages) ==
  IF prevSelected # NoId THEN prevSelected
  ELSE IF newPages # <<>> THEN newPages[1].id
  ELSE NoId

\* After the loop over the files: the commit of newPages.
CommitUpload(u) ==
  LET newPages == NewPages(uploads[u], <<>>, nextId - 1)
  IN /\ pages' = pages \o newPages
     /\ selectedPageId' = SelectAfterUpload(selectedPageId, newPages)
     /\ globalStatus' = "idle"
     /\ uploads' = RemoveAt(uploads, u)
     /\ nextId' = nextId + Len(newPages)
     /\ UNCHANGED <<singles, batches, downloads, apiKey>>

----------------------------------------------------------------------------
(* Page list and page header *)

SelectPage(id) ==
  /\ HasPage(pages, id)
  /\ selectedPageId' = id
  /\ UNCHANGED <<pages, globalStatus, uploads, singles, batches, nextId, downloads, apiKey>>

DeleteFilter(pgs, id) == SelectSeq(pgs, LAMBDA p : p.id # id)

\* a deletion that leaves the selection on the deleted page
DeletePage_KeepsSelection ==
  /\ HasSelectedPage
  /\ pages' = DeleteFilter(pages, selectedPage.id)
  /\ UNCHANGED <<selectedPageId, globalStatus, uploads, singles, batches, nextId,
                 downloads, apiKey>>

DeletePage ==
  /\ HasSelectedPage
  /\ pages' = DeleteFilter(pages, selectedPage.id)
  /\ selectedPageId' = NoId
  /\ UNCHANGED <<globalStatus, uploads, singles, batches, nextId, downloads, apiKey>>

----------------------------------------------------------------------------
(* processPage, App.tsx 245-267 *)

\* an extraction that always sends the image captured at ingestion
imageToProcess_Original(page) == Some(page.originalImage)

imageToProcess(page) ==
  IF Truthy(page.processedImage) THEN page.processedImage ELSE Some(page.originalImage)

\* lines 249-252
processPageStart(pgs, id) ==
  MapPages(pgs, id, LAMBDA p : [p EXCEPT !.status = "extracting",
                                         !.consistencyWarning = Undefined])

\* a success path that stores the rows and leaves the status as it is
processPageSuccess_KeepsStatus(pgs, id, data) ==
  MapPages(pgs, id, LAMBDA p : [p EXCEPT !.extractedData = Some(data)])

\* a success path that adds the page when no page has its id
processPageSuccess_Resurrects(pgs, id, data) ==
  IF \E i \in 1..Len(pgs) : pgs[i].id = id
    THEN MapPages(pgs, id, LAMBDA p : [p EXCEPT !.extractedData = Some(data),
                                                !.status = "complete"])
    ELSE Append(pgs, [id |-> id, name |-> <<"a.png">>,
                      originalImage |-> [src |-> "a.png", page |-> 0, filter |-> "none"],
                      processedImage |-> Null, extractedData |-> Some(data),
                      status |-> "complete", errorMessage |-> Null,
                      consistencyWarning |-> Undefined])

\* a success written over the list as the render of the call held it: the
\* pages appended after the page are not in it
processPageSuccess_Snapshot(pgs, id, data) ==
  LET upTo == IF \E i \in 1..Len(pgs) : pgs[i].id = id
                THEN CHOOSE i \in 1..Len(pgs) : pgs[i].id = id
                ELSE Len(pgs)
  IN MapPages(SubSeq(pgs, 1, upTo), id,
              LAMBDA p : [p EXCEPT !.extractedData = Some(data), !.status = "complete"])

\* lines 256-259
processPageSuccess(pgs, id, data) ==
  MapPages(pgs, id, LAMBDA p : [p EXCEPT !.extractedData = Some(data),
                                         !.status = "complete"])

\* a failure that is written to every page of the session
processPageFailure_AllPages(pgs, id, msg) ==
  [i \in 1..Len(pgs) |-> [pgs[i] EXCEPT !.status = "error",
                                        !.errorMessage = Some(msg)]]

\* a failure path that also drops the pre-processed image
processPageFailure_DropsImage(pgs, id, msg) ==
  MapPages(pgs, id, LAMBDA p : [p EXCEPT !.status = "error",
                                         !.errorMessage = Some(msg),
                                         !.processedImage = Null])

\* lines 262-265
processPageFailure(pgs, id, msg) ==
  MapPages(pgs, id, LAMBDA p : [p EXCEPT !.status = "error",
                                         !.errorMessage = Some(msg)])

----------------------------------------------------------------------------
(* handlePageUpdate and handleResetPage *)

\* The image processor is rendered for the selected page when it is not
\* extracting and has no extractedData (App.tsx 481-522).
\* an image processor that is also rendered while the page is extracting
ImageProcessorShown_NoSpinner ==
  /\ HasSelectedPage
  /\ ~Truthy(selectedPage.extractedData)

ImageProcessorShown ==
  /\ HasSelectedPage
  /\ selectedPage.status # "extracting"
  /\ ~Truthy(selectedPage.extractedData)

\* The results view, with its reset buttons, is rendered for the selected
\* page when it is not extracting and has extractedData.
\* a reset button that is also rendered with the spinner
ResultsShown_OrSpinner ==
  /\ HasSelectedPage
  /\ selectedPage.status = "extracting" \/ Truthy(selectedPage.extractedData)

ResultsShown ==
  /\ HasSelectedPage
  /\ selectedPage.status # "extracting"
  /\ Truthy(selectedPage.extractedData)

\* canvas.toDataURL of the original image under the chosen settings
Processed(img, f) == Image(img.src, img.page, f)

\* an update that stores the filtered image over the original
setProcessedImage_InPlace(pgs, pageId, newImage) ==
  MapPages(pgs, pageId, LAMBDA p : [p EXCEPT !.processedImage = Some(newImage),
                                             !.originalImage = newImage])

setProcessedImage(pgs, pageId, newImage) ==
  MapPages(pgs, pageId, LAMBDA p : [p EXCEPT !.processedImage = Some(newImage)])

\* processPage(page) in place of processPage({ ...page, processedImage: newImage })
handlePageUpdate_StalePage(pageId, newImage) ==
  LET updatedPages == setProcessedImage(pages, pageId, newImage)
      page == PageById(pages, pageId)
  IN IF HasPage(pages, pageId) /\ Truthy(imageToProcess(page))
       THEN /\ pages' = processPageStart(updatedPages, page.id)
            /\ singles' = singles (+) One(Call(page.id, imageToProcess(page)[1]))
            /\ UNCHANGED <<selectedPageId, globalStatus, uploads, batches, nextId,
                           downloads, apiKey>>
       ELSE /\ pages' = updatedPages
            /\ UNCHANGED <<selectedPageId, globalStatus, uploads, singles, batches,
                           nextId, downloads, apiKey>>

handlePageUpdate(pageId, newImage) ==
  LET updatedPages == setProcessedImage(pages, pageId, newImage)
      page == [PageById(pages, pageId) EXCEPT !.processedImage = Some(newImage)]
  IN IF HasPage(pages, pageId) /\ Truthy(imageToProcess(page))
       THEN /\ pages' = processPageStart(updatedPages, page.id)
            /\ singles' = singles (+) One(Call(page.id, imageToProcess(page)[1]))
            /\ UNCHANGED <<selectedPageId, globalStatus, uploads, batches, nextId,
                           downloads, apiKey>>
       ELSE /\ pages' = updatedPages
            /\ UNCHANGED <<selectedPageId, globalStatus, uploads, singles, batches,
                           nextId, downloads, apiKey>>

ApplyPreprocessing ==
  /\ ImageProcessorShown
  /\ \E f \in Filters :
       handlePageUpdate(selectedPage.id, Processed(selectedPage.originalImage, f))

\* handleResetPage forgetting to clear the rows
resetPage_KeepData(pgs, pageId) ==
  MapPages(pgs, pageId, LAMBDA p : [p EXCEPT !.status = "idle",
                                             !.consistencyWarning = Undefined])

\* handleResetPage forgetting to clear the warning
resetPage_KeepWarning(pgs, pageId) ==
  MapPages(pgs, pageId, LAMBDA p : [p EXCEPT !.extractedData = Null,
                                             !.status = "idle"])

resetPage(pgs, pageId) ==
  MapPages(pgs, pageId, LAMBDA p : [p EXCEPT !.extractedData = Null,
                                             !.status = "idle",
                                             !.consistencyWarning = Undefined])

handleResetPage ==
  /\ ResultsShown
  /\ pages' = resetPage(pages, selectedPage.id)
  /\ UNCHANGED <<selectedPageId, globalStatus, uploads, singles, batches, nextId,
                 downloads, apiKey>>

----------------------------------------------------------------------------
(* processAll, App.tsx 269-285 *)

\* a batch that also selects the pages that are already complete
idlePages_AlsoComplete(pgs) == SelectSeq(pgs, LAMBDA p : p.status # "extracting")

idlePages(pgs) == SelectSeq(pgs, LAMBDA p : p.status = "idle" \/ p.status = "error")

\* idlePages.map(page => processPage(page)): every processPage runs up to
\* its await, so all the 'extracting' updates are queued in this one step.
RECURSIVE StartAll(_, _)
StartAll(pgs, list) ==
  IF list = <<>> THEN pgs
  ELSE IF Truthy(imageToProcess(Head(list)))
    THEN Bind2(processPageStart(pgs, Head(list).id), Tail(list), StartAll)
    ELSE Bind2(pgs, Tail(list), StartAll)

LaunchedCalls(list) ==
  {Call(list[i].id, imageToProcess(list[i])[1]) :
     i \in {j \in 1..Len(list) : Truthy(imageToProcess(list[j]))}}

\* The promises handed to Promise.all that have not settled yet.
Batch(list) == [calls |-> LaunchedCalls(list)]

\* a batch without the early return: with no page to extract it goes on to
\* the reconciliation
processAll_NoEarlyReturn ==
  /\ Len(pages) > 0
  /\ ~isGlobalProcessing
  /\ IF Len(idlePages(pages)) = 0
       THEN /\ pages' = checkConsistency(pages)
            /\ globalStatus' = "idle"
            /\ UNCHANGED <<selectedPageId, uploads, singles, batches, nextId, downloads,
                           apiKey>>
       ELSE /\ globalStatus' = "extracting"
            /\ pages' = StartAll(pages, idlePages(pages))
            /\ batches' = batches (+) One(Batch(idlePages(pages)))
            /\ UNCHANGED <<selectedPageId, uploads, singles, nextId, downloads, apiKey>>

\* The Batch Process button is rendered when there are pages and is disabled
\* while isGlobalProcessing (App.tsx 322, 334).
processAll ==
  /\ Len(pages) > 0
  /\ ~isGlobalProcessing
  /\ IF Len(idlePages(pages)) = 0
       THEN UNCHANGED vars
       ELSE /\ globalStatus' = "extracting"
            /\ pages' = StartAll(pages, idlePages(pages))
            /\ batches' = batches (+) One(Batch(idlePages(pages)))
            /\ UNCHANGED <<selectedPageId, uploads, singles, nextId, downloads, apiKey>>

\* Promise.race in place of Promise.all: the join does not wait
AllSettled_Race(batch) == Cardinality(batch.calls) <= 1

\* Promise.all: every promise of the batch has settled.
AllSettled(batch) == batch.calls = {}

\* a commit that writes back the reconciliation of the pages that had
\* settled, as a list kept aside from the session would hold them
BatchJoin_Stale(b) ==
  /\ BagIn(b, batches)
  /\ AllSettled(b)
  /\ pages' = checkConsistency(SelectSeq(pages, LAMBDA p : p.status \in {"complete", "error"}))
  /\ globalStatus' = "idle"
  /\ batches' = batches (-) One(b)
  /\ UNCHANGED <<selectedPageId, uploads, singles, nextId, downloads, apiKey>>

\* lines 279-284
BatchJoin(b) ==
  /\ BagIn(b, batches)
  /\ AllSettled(b)
  /\ pages' = checkConsistency(pages)
  /\ globalStatus' = "idle"
  /\ batches' = batches (-) One(b)
  /\ UNCHANGED <<selectedPageId, uploads, singles, nextId, downloads, apiKey>>

----------------------------------------------------------------------------
(* The extraction service answers: the continuations of processPage *)

Settle(b, c) == (batches (-) One(b)) (+) One([b EXCEPT !.calls = @ \ {c}])

\* a continuation that reconciles the session after it has written the rows
SingleSucceeds_Reconciles(c, data) ==
  /\ BagIn(c, singles)
  /\ pages' = checkConsistency(processPageSuccess(pages, c.pageId, data))
  /\ singles' = singles (-) One(c)
  /\ UNCHANGED <<selectedPageId, globalStatus, uploads, batches, nextId, downloads,
                 apiKey>>

SingleSucceeds(c, data) ==
  /\ BagIn(c, singles)
  /\ pages' = processPageSuccess(pages, c.pageId, data)
  /\ singles' = singles (-) One(c)
  /\ UNCHANGED <<selectedPageId, globalStatus, uploads, batches, nextId, downloads, apiKey>>

SingleFails(c, msg) ==
  /\ BagIn(c, singles)
  /\ pages' = processPageFailure(pages, c.pageId, msg)
  /\ singles' = singles (-) One(c)
  /\ UNCHANGED <<selectedPageId, globalStatus, uploads, batches, nextId, downloads, apiKey>>

\* a service that answers the calls of a batch in the order of their launch
BatchCallSucceeds_InOrder(b, c, data) ==
  /\ BagIn(b, batches)
  /\ c \in b.calls
  /\ \A o \in b.calls : c.pageId <= o.pageId
  /\ pages' = processPageSuccess(pages, c.pageId, data)
  /\ batches' = Settle(b, c)
  /\ UNCHANGED <<selectedPageId, globalStatus, uploads, singles, nextId, downloads, apiKey>>

BatchCallSucceeds(b, c, data) ==
  /\ BagIn(b, batches)
  /\ c \in b.calls
  /\ pages' = processPageSuccess(pages, c.pageId, data)
  /\ batches' = Settle(b, c)
  /\ UNCHANGED <<selectedPageId, globalStatus, uploads, singles, nextId, downloads, apiKey>>

BatchCallFails(b, c, msg) ==
  /\ BagIn(b, batches)
  /\ c \in b.calls
  /\ pages' = processPageFailure(pages, c.pageId, msg)
  /\ batches' = Settle(b, c)
  /\ UNCHANGED <<selectedPageId, globalStatus, uploads, singles, nextId, downloads, apiKey>>

\* Every extraction-service call that has not been answered.
BatchCalls == UNION {b.calls : b \in BagToSet(batches)}
Outstanding(id) ==
  \/ \E c \in BagToSet(singles) : c.pageId = id
  \/ \E c \in BatchCalls : c.pageId = id

----------------------------------------------------------------------------
(* geminiService.ts: extractGenericTable *)

\* What ai.models.generateContent does: it rejects with an error (error is
\* the message), or resolves with a response whose text is undefined or a
\* string.
Rejected(message) == [error |-> Some(message), text |-> Undefined]
Response(text) == [error |-> Null, text |-> text]

Responses ==
  { Rejected("fetch failed"),
    Rejected("429 RESOURCE_EXHAUSTED"),
    Response(Undefined),
    Response(Some("")),
    Response(Some("I cannot read this image")),
    Response(Some("[]")),
    Response(Some("[{\"name\":\"x\"}]")) }

\* JSON.parse: the value of a JSON text, a SyntaxError for any other text.
IsJson(text) == text \in {"[]", "[{\"name\":\"x\"}]"}
JsonValue(text) == IF text = "[]" THEN <<>> ELSE << <<Entry("name", "x")>> >>
SyntaxError(text) == "Unexpected token 'I', \"I cannot r\"... is not valid JSON"

Throw(message) == [ok |-> FALSE, message |-> message, data |-> <<>>]
Return(data) == [ok |-> TRUE, message |-> "", data |-> data]

\* a catch block that logs the error and answers with no rows
extractGenericTable_Swallows(key, r) ==
  IF ~key THEN Throw("API Key missing")
  ELSE IF Truthy(r.error) THEN Return(<<>>)
  ELSE IF ~Truthy(r.text) \/ r.text = Some("") THEN Return(<<>>)
  ELSE IF ~IsJson(r.text[1]) THEN Return(<<>>)
  ELSE Return(JsonValue(r.text[1]))

\* lines 9-43: the promise of extractGenericTable, fulfilled or rejected
extractGenericTable(key, r) ==
  IF ~key THEN Throw("API Key missing")
  ELSE IF Truthy(r.error) THEN Throw(r.error[1])
  ELSE IF ~Truthy(r.text) \/ r.text = Some("") THEN Throw("Empty response from Gemini")
  ELSE IF ~IsJson(r.text[1]) THEN Throw(SyntaxError(r.text[1]))
  ELSE Return(JsonValue(r.text[1]))

\* The continuation of processPage after await extractGenericTable, for a
\* call of the image processor and for a call of a batch.
SingleAnswered(c, r) ==
  IF extractGenericTable(apiKey, r).ok
    THEN SingleSucceeds(c, extractGenericTable(apiKey, r).data)
    ELSE SingleFails(c, extractGenericTable(apiKey, r).message)

BatchCallAnswered(b, c, r) ==
  IF extractGenericTable(apiKey, r).ok
    THEN BatchCallSucceeds(b, c, extractGenericTable(apiKey, r).data)
    ELSE BatchCallFails(b, c, extractGenericTable(apiKey, r).message)

----------------------------------------------------------------------------
(* fileUtils.ts: downloadExcelMultiSheet and downloadExcelMasterSheet *)

\* XLSX.writeFile(wb, filename), the workbook given by its sheets in order.
WriteFile(filename, sheets) == [effect |-> "file", text |-> filename, sheets |-> sheets]

\* alert(message)
Alert(message) == [effect |-> "alert", text |-> message, sheets |-> <<>>]

NoExportData == "No extracted data available to export."

\* pages.forEach((page, index) => ...)
Indexed(pgs) == [i \in 1..Len(pgs) |-> [index |-> i - 1, page |-> pgs[i]]]

Sheet(name, rows) == [name |-> name, rows |-> rows]

\* an export that appends a sheet for every page that has an array of rows
MultiSheets_EmptyToo(pgs) ==
  LET withData == SelectSeq(Indexed(pgs), LAMBDA e : Truthy(e.page.extractedData))
  IN [i \in 1..Len(withData) |->
        Sheet(<<"Page ", withData[i].index + 1>>, withData[i].page.extractedData[1])]

\* lines 57-64: a sheet `Page ${index + 1}` for every page with rows
MultiSheets(pgs) ==
  LET withData == SelectSeq(Indexed(pgs),
                            LAMBDA e : /\ Truthy(e.page.extractedData)
                                       /\ Len(e.page.extractedData[1]) > 0)
  IN [i \in 1..Len(withData) |->
        Sheet(<<"Page ", withData[i].index + 1>>, withData[i].page.extractedData[1])]

\* hasData is true exactly when a sheet was appended.
downloadExcelMultiSheet(pgs) ==
  IF Len(MultiSheets(pgs)) > 0
    THEN WriteFile("digitized_data.xlsx", MultiSheets(pgs))
    ELSE Alert(NoExportData)

\* obj[k] = v: a key the object has keeps its place.
SetKey(obj, k, v) ==
  IF HasKey(obj, k)
    THEN [j \in 1..Len(obj) |-> IF obj[j].k = k THEN Entry(k, v) ELSE obj[j]]
    ELSE Append(obj, Entry(k, v))

\* { ...obj, ...row }
RECURSIVE Spread(_, _)
Spread(obj, row) ==
  IF row = <<>> THEN obj
  ELSE Bind2(SetKey(obj, Head(row).k, Head(row).v), Tail(row), Spread)

\* lines 79-85: { "Page Number": index + 1, "Source File": page.name, ...row }
MasterRows(e) ==
  [r \in 1..Len(e.page.extractedData[1]) |->
     Spread(<<Entry("Page Number", e.index + 1), Entry("Source File", e.page.name)>>,
            e.page.extractedData[1][r])]

RECURSIVE Concat(_)
Concat(seqs) == IF seqs = <<>> THEN <<>> ELSE Head(seqs) \o Concat(Tail(seqs))

\* lines 76-87: the rows of every page that has an array of rows, in page order
combinedData(pgs) ==
  LET withData == SelectSeq(Indexed(pgs), LAMBDA e : Truthy(e.page.extractedData))
  IN Concat([i \in 1..Len(withData) |-> MasterRows(withData[i])])

downloadExcelMasterSheet(pgs) ==
  IF Len(combinedData(pgs)) > 0
    THEN WriteFile("master_data.xlsx", <<Sheet(<<"Master Data">>, combinedData(pgs))>>)
    ELSE Alert(NoExportData)

\* The export buttons are rendered when there are pages (App.tsx 322) and
\* are never disabled; they read the pages and leave the session as it is.
Export(result) ==
  /\ Len(pages) > 0
  /\ Len(downloads) < MaxExports
  /\ downloads' = Append(downloads, result)
  /\ UNCHANGED <<pages, selectedPageId, globalStatus, uploads, singles, batches, nextId,
                 apiKey>>

ExportMultiSheet == Export(downloadExcelMultiSheet(pages))
ExportMasterSheet == Export(downloadExcelMasterSheet(pages))

----------------------------------------------------------------------------
(* Specification *)

Upload == \E files \in UploadChoices : StartUpload(files)
UploadDone == \E u \in 1..Len(uploads) : CommitUpload(u)
Select == \E id \in PageIds(pages) : SelectPage(id)
SingleSuccess ==
  \E c \in BagToSet(singles) : \E data \in Tables : SingleSucceeds(c, data)
SingleFailure ==
  \E c \in BagToSet(singles) : \E msg \in ErrMsgs : SingleFails(c, msg)
BatchSuccess ==
  \E b \in BagToSet(batches) : \E c \in b.calls : \E data \in Tables :
    BatchCallSucceeds(b, c, data)
BatchFailure ==
  \E b \in BagToSet(batches) : \E c \in b.calls : \E msg \in ErrMsgs :
    BatchCallFails(b, c, msg)
Join == \E b \in BagToSet(batches) : BatchJoin(b)

Next ==
  \/ Upload
  \/ UploadDone
  \/ Select
  \/ DeletePage
  \/ ApplyPreprocessing
  \/ handleResetPage
  \/ processAll
  \/ SingleSuccess
  \/ SingleFailure
  \/ BatchSuccess
  \/ BatchFailure
  \/ Join

Spec == Init /\ [][Next]_vars

\* A session right after the ingestion of n image files: n idle pages, the
\* first one selected.
IdleSession(n) == NewPages([i \in 1..n |-> ImgFile("a.png", TRUE)], <<>>, 0)

InitBatch ==
  \E n \in 1..MaxBatchPages :
    /\ pages = IdleSession(n)
    /\ selectedPageId = 1
    /\ globalStatus = "idle"
    /\ uploads = <<>>
    /\ singles = EmptyBag
    /\ batches = EmptyBag
    /\ nextId = n + 1
    /\ downloads = <<>>
    /\ apiKey = TRUE

\* Batches alone, with a service that answers every call.  The answer of a
\* call and the continuation after Promise.all are scheduled by the event
\* loop, hence the weak fairness.
NextBatch ==
  \/ processAll
  \/ BatchSuccess
  \/ BatchFailure
  \/ Join

BatchSpec ==
  /\ InitBatch
  /\ [][NextBatch]_vars
  /\ WF_vars(BatchSuccess \/ BatchFailure)
  /\ WF_vars(Join)

\* Batches with a service that succeeds for every call.
NextSuccess ==
  \/ processAll
  \/ BatchSuccess
  \/ Join

SuccessSpec ==
  /\ InitBatch
  /\ [][NextSuccess]_vars
  /\ WF_vars(BatchSuccess)
  /\ WF_vars(Join)

\* Ingestion, selection and deletion alone, over every kind of file.
UploadAny == \E files \in IngestChoices : StartUploadWithin(files, MaxIngestIds)

NextIngest ==
  \/ UploadAny
  \/ UploadDone
  \/ Select
  \/ DeletePage

IngestSpec == Init /\ [][NextIngest]_vars

\* The values Math.random().toString(36).substr(2, 9) may return: nothing
\* keeps two draws apart.
IdPool == 1..MaxIngestIds

\* The new records with the ids that were drawn for them.
Draw(newPages, ids) == [i \in 1..Len(newPages) |-> [newPages[i] EXCEPT !.id = ids[i]]]

\* The commit of an ingestion, any id drawn for any record.
CommitUploadDrawn(u) ==
  \E ids \in [1..Yield(uploads[u]) -> IdPool] :
    LET newPages == Draw(NewPages(uploads[u], <<>>, nextId - 1), ids)
    IN /\ pages' = pages \o newPages
       /\ selectedPageId' = SelectAfterUpload(selectedPageId, newPages)
       /\ globalStatus' = "idle"
       /\ uploads' = RemoveAt(uploads, u)
       /\ nextId' = nextId + Len(newPages)
       /\ UNCHANGED <<singles, batches, downloads, apiKey>>

UploadDoneDrawn == \E u \in 1..Len(uploads) : CommitUploadDrawn(u)

NextDrawn ==
  \/ UploadAny
  \/ UploadDoneDrawn
  \/ Select
  \/ DeletePage

\* Ingestion, selection and deletion with the ids as they are drawn.
IdSpec == Init /\ [][NextDrawn]_vars

\* A session right after the ingestion of up to MaxExportPages image files.
InitExport ==
  \E n \in 1..MaxExportPages :
    /\ pages = IdleSession(n)
    /\ selectedPageId = 1
    /\ globalStatus = "idle"
    /\ uploads = <<>>
    /\ singles = EmptyBag
    /\ batches = EmptyBag
    /\ nextId = n + 1
    /\ downloads = <<>>
    /\ apiKey = TRUE

\* The answers of a batch: every table, the empty one included.
BatchAnswer ==
  \E b \in BagToSet(batches) : \E c \in b.calls : \E data \in ReconTables :
    BatchCallSucceeds(b, c, data)

NextExport ==
  \/ processAll
  \/ BatchAnswer
  \/ BatchFailure
  \/ Join
  \/ ExportMultiSheet
  \/ ExportMasterSheet

\* Batches, and exports at any moment.
ExportSpec == InitExport /\ [][NextExport]_vars

\* A session right after the ingestion of up to MaxServicePages image files,
\* in a build with or without an API key.
InitService ==
  \E n \in 1..MaxServicePages : \E key \in BOOLEAN :
    /\ pages = IdleSession(n)
    /\ selectedPageId = 1
    /\ globalStatus = "idle"
    /\ uploads = <<>>
    /\ singles = EmptyBag
    /\ batches = EmptyBag
    /\ nextId = n + 1
    /\ downloads = <<>>
    /\ apiKey = key

SingleAnswer ==
  \E c \in BagToSet(singles) : \E r \in Responses : SingleAnswered(c, r)
BatchCallAnswer ==
  \E b \in BagToSet(batches) : \E c \in b.calls : \E r \in Responses :
    BatchCallAnswered(b, c, r)

NextService ==
  \/ ApplyPreprocessing
  \/ processAll
  \/ SingleAnswer
  \/ BatchCallAnswer
  \/ Join

\* Extractions of the first page from the image processor and of the pages
\* in batches, every call answered in one of the ways the service can answer.
ServiceSpec == InitService /\ [][NextService]_vars

\* The rows a service reads off an image: they tell the image apart.
TableOf(image) == << <<Entry("src", image.src), Entry("filter", image.filter)>> >>

\* A session right after the ingestion of up to MaxEchoPages image files.
InitEcho ==
  \E n \in 1..MaxEchoPages :
    /\ pages = IdleSession(n)
    /\ selectedPageId = 1
    /\ globalStatus = "idle"
    /\ uploads = <<>>
    /\ singles = EmptyBag
    /\ batches = EmptyBag
    /\ nextId = n + 1
    /\ downloads = <<>>
    /\ apiKey = TRUE

SingleEcho == \E c \in BagToSet(singles) : SingleSucceeds(c, TableOf(c.image))
BatchEcho ==
  \E b \in BagToSet(batches) : \E c \in b.calls : BatchCallSucceeds(b, c, TableOf(c.image))

NextEcho ==
  \/ Select
  \/ DeletePage
  \/ ApplyPreprocessing
  \/ handleResetPage
  \/ processAll
  \/ SingleEcho
  \/ SingleFailure
  \/ BatchEcho
  \/ BatchFailure
  \/ Join

\* Every handler but the ingestion, with a service whose rows depend on the
\* image of the request.
EchoSpec == InitEcho /\ [][NextEcho]_vars

\* A session at the moment Promise.all of a batch has resolved and its
\* continuation (lines 279-284) is about to run.  The pages are those the
\* session can hold by then: extracted ones with the rows the service
\* answered, one kept from an earlier reconciliation with its filled column
\* and its warning, and pages that are idle (ingested or reset meanwhile), in
\* error, or being extracted again from the image processor.
ReconShapes ==
  { [status |-> "complete", extractedData |-> Some(t), errorMessage |-> Null,
     consistencyWarning |-> Undefined] : t \in ReconTables }
  \cup
  { [status |-> "complete",
     extractedData |-> Some(<< <<Entry("name", "x"), Entry("city", "")>> >>),
     errorMessage |-> Null, consistencyWarning |-> Some(Warning(1, 2))],
    [status |-> "idle", extractedData |-> Null, errorMessage |-> Null,
     consistencyWarning |-> Undefined],
    [status |-> "error", extractedData |-> Null,
     errorMessage |-> Some("Empty response from Gemini"),
     consistencyWarning |-> Undefined],
    [status |-> "extracting", extractedData |-> Null, errorMessage |-> Null,
     consistencyWarning |-> Undefined] }

ReconPage(id, shape) ==
  [NewPage(id, <<"a.png">>, Base64(ImgFile("a.png", TRUE))) EXCEPT
     !.status = shape.status,
     !.extractedData = shape.extractedData,
     !.errorMessage = shape.errorMessage,
     !.consistencyWarning = shape.consistencyWarning]

InitRecon ==
  \E n \in 0..MaxReconPages : \E shape \in [1..n -> ReconShapes] :
    /\ pages = [i \in 1..n |-> ReconPage(i, shape[i])]
    /\ selectedPageId = NoId
    /\ globalStatus = "extracting"
    /\ uploads = <<>>
    /\ singles = SetToBag({Call(i, Base64(ImgFile("a.png", TRUE))) :
                             i \in {j \in 1..n : shape[j].status = "extracting"}})
    /\ batches = One(Batch(<<>>))
    /\ nextId = n + 1
    /\ downloads = <<>>
    /\ apiKey = TRUE

\* The continuation after Promise.all alone: checkConsistency applied to the
\* pages of the session.
ReconSpec == InitRecon /\ [][Join]_vars

----------------------------------------------------------------------------
(* Page invariants *)

Pages == {pages[i] : i \in 1..Len(pages)}

\* C1: in every reachable state every page has extractedData non-null if
\* and only if its status is complete.
C1_DataIffComplete ==
  \A p \in Pages : Truthy(p.extractedData) <=> p.status = "complete"

\* A page was extracted and holds rows while another one, reset or failed,
\* holds none.
C1_Witness ==
  /\ \E p \in Pages : p.status = "complete" /\ Truthy(p.extractedData)
  /\ \E p \in Pages : p.status = "error" /\ ~Truthy(p.extractedData)

\* C2: in every reachable state every page has errorMessage non-null if and
\* only if its status is error.
C2_ErrorIffError ==
  \A p \in Pages : Truthy(p.errorMessage) <=> p.status = "error"

\* C3: in every reachable state a page that carries a consistencyWarning
\* has status complete.
C3_WarningOnlyComplete ==
  \A p \in Pages : Truthy(p.consistencyWarning) => p.status = "complete"

\* The reconciler has flagged a page, and another page has been reset or is
\* being extracted again.
C3_Witness ==
  /\ \E p \in Pages : Truthy(p.consistencyWarning) /\ p.status = "complete"
  /\ \E p \in Pages : p.status # "complete" /\ Truthy(p.errorMessage)

----------------------------------------------------------------------------
(* Transitions of one page *)

\* The ids of the pages that a step keeps.
Kept == PageIds(pages) \cap PageIds(pages')
Before(id) == PageById(pages, id)
After(id) == PageById(pages', id)

\* C4: when extract is re-run on a page in error status, the transition
\* that sets its status to extracting clears its errorMessage and its
\* consistencyWarning.
C4_RerunClears ==
  [][\A id \in Kept :
       (Before(id).status = "error" /\ After(id).status = "extracting")
         => /\ After(id).errorMessage = Null
            /\ After(id).consistencyWarning = Undefined]_vars

\* C5: a failed extraction writes only status = error and errorMessage on
\* its page; extractedData, processedImage, originalImage and every other
\* field of the page are unchanged.
C5_FailureWritesOnlyError ==
  [][\A id \in Kept :
       (Before(id).status # "error" /\ After(id).status = "error")
         => After(id) = [Before(id) EXCEPT !.status = "error",
                                           !.errorMessage = After(id).errorMessage]]_vars

\* A page whose extraction failed still holds the image that the image
\* processor produced for it.
C5_Witness ==
  \E p \in Pages :
    /\ p.status = "error"
    /\ Truthy(p.errorMessage)
    /\ p.processedImage # Some(p.originalImage)
    /\ Truthy(p.processedImage)

----------------------------------------------------------------------------
(* Batches *)

CallIds(calls) == {c.pageId : c \in calls}

IdleOrError(pgs) ==
  {id \in PageIds(pgs) : PageById(pgs, id).status \in {"idle", "error"}}

Keys(row) == {row[j].k : j \in 1..Len(row)}

EligiblePages(pgs) == {pgs[i] : i \in {j \in 1..Len(pgs) : Eligible(pgs[j])}}

\* Every row of every eligible page has the same columns.
SameColumns(pgs) ==
  \A p, q \in EligiblePages(pgs) :
    \A r \in 1..Len(p.extractedData[1]) : \A t \in 1..Len(q.extractedData[1]) :
      Keys(p.extractedData[1][r]) = Keys(q.extractedData[1][t])

\* The warnings of the eligible pages are those of one row-count mode.
OneMode(pgs) ==
  \E m \in {Len(p.extractedData[1]) : p \in EligiblePages(pgs)} :
    \A p \in EligiblePages(pgs) :
      p.consistencyWarning =
        IF Len(p.extractedData[1]) # m
          THEN Some(Warning(Len(p.extractedData[1]), m))
          ELSE Undefined

\* A failure is written in this step.
FailsIn(id) == Before(id).status # "error" /\ After(id).status = "error"

BatchJoined ==
  /\ batches = EmptyBag
  /\ globalStatus = "idle"
  /\ \A p \in Pages : p.status # "extracting"

\* C6: a failed extraction of one page in a batch changes no field of any
\* other page and leaves the other launched calls outstanding, and the batch
\* still finishes: every other call writes its result and the reconciler
\* commits.
C6_FailureIsLocal ==
  /\ [][\A id \in Kept :
          FailsIn(id)
            => /\ PageIds(pages') = PageIds(pages)
               /\ \A o \in PageIds(pages) \ {id} : After(o) = Before(o)
               /\ \A c \in BatchCalls : c.pageId # id => c \in BatchCalls'
               /\ globalStatus' = globalStatus]_vars
  /\ ((batches # EmptyBag /\ \E p \in Pages : p.status = "error") ~> BatchJoined)

\* A batch in which one page failed has been joined, and a sibling page
\* holds its rows.
C6_Witness ==
  /\ BatchJoined
  /\ \E p \in Pages : p.status = "error"
  /\ \E p \in Pages : p.status = "complete" /\ Truthy(p.extractedData)

AllDone ==
  /\ \A p \in Pages : p.status = "complete" /\ Truthy(p.extractedData)
  /\ BatchCalls = {}
  /\ singles = EmptyBag
  /\ batches = EmptyBag
  /\ globalStatus = "idle"

\* C9: when extractAll is triggered with all N pages idle and the service
\* succeeds for every call, eventually all N pages are complete, no
\* extraction is outstanding, the reconciliation is committed and the global
\* status is idle.
C9_BatchCompletes == (batches # EmptyBag) ~> AllDone

\* A batch of at least two pages has run to its end.
C9_Witness == AllDone /\ Len(pages) >= 2 /\ SameColumns(pages)

\* C7: extractAll launches an extraction for exactly the pages that are idle
\* or error at trigger time, leaves every other page as it is and cancels no
\* extraction in flight.
C7_BatchSelectsIdleOrError ==
  [][BagCardinality(batches') > BagCardinality(batches)
       => \E b \in BagToSet(batches') :
            /\ batches' = batches (+) One(b)
            /\ CallIds(b.calls) = IdleOrError(pages)
            /\ singles' = singles
            /\ PageIds(pages') = PageIds(pages)
            /\ \A id \in IdleOrError(pages) : After(id).status = "extracting"
            /\ \A id \in PageIds(pages) \ IdleOrError(pages) :
                 After(id) = Before(id)]_vars

\* A batch is in flight for one page while another page, complete at the
\* trigger, still holds its rows.
C7_Witness ==
  /\ \E b \in BagToSet(batches) : \E c \in b.calls :
       HasPage(pages, c.pageId) /\ PageById(pages, c.pageId).status = "extracting"
  /\ \E p \in Pages : p.status = "complete" /\ ~Outstanding(p.id)

\* C8: the reconciler of a batch runs only when no extract call launched by
\* that batch is outstanding.
C8_JoinAfterAllSettled ==
  [][BagCardinality(batches') < BagCardinality(batches)
       => \E b \in BagToSet(batches) :
            /\ batches' = batches (-) One(b)
            /\ b.calls = {}]_vars

\* A batch of two pages has been joined and reconciled.
C8_Witness ==
  /\ batches = EmptyBag
  /\ globalStatus = "idle"
  /\ \E p \in Pages : Truthy(p.consistencyWarning)

\* A step rewrites the rows or the warning of a page that stays complete.
Rewrites ==
  \E id \in Kept :
    /\ Before(id).status = "complete"
    /\ After(id).status = "complete"
    /\ \/ After(id).extractedData # Before(id).extractedData
       \/ After(id).consistencyWarning # Before(id).consistencyWarning

\* C10: the reconciler's output is committed in one transition: a step that
\* rewrites the rows or the warning of a complete page leaves every eligible
\* page reconciled, none with its pre-reconciliation rows.
C10_ReconcileAtomic ==
  [][Rewrites => SameColumns(pages') /\ OneMode(pages')]_vars

\* Two pages with different columns and row counts have been reconciled.
C10_Witness ==
  /\ Cardinality(EligiblePages(pages)) >= 2
  /\ SameColumns(pages)
  /\ \E p \in Pages : Truthy(p.consistencyWarning)
  /\ \E p \in EligiblePages(pages) : \E r \in 1..Len(p.extractedData[1]) :
       \E j \in 1..Len(p.extractedData[1][r]) : p.extractedData[1][r][j].v = ""

----------------------------------------------------------------------------
(* The reconciler *)

\* The continuation after Promise.all runs in this step.
Joins == BagCardinality(batches') < BagCardinality(batches)

Rows(p) == p.extractedData[1]
RowCount(p) == Len(Rows(p))
EligibleIds(pgs) == {p.id : p \in EligiblePages(pgs)}
Value(row, h) == row[CHOOSE j \in 1..Len(row) : row[j].k = h].v

\* The column names of the rows of the eligible pages.
AllKeys(pgs) ==
  UNION {UNION {Keys(Rows(p)[r]) : r \in 1..RowCount(p)} : p \in EligiblePages(pgs)}

\* The reconciler has just run over at least two eligible pages.
Reconciled ==
  /\ batches = EmptyBag
  /\ globalStatus = "idle"
  /\ Cardinality(EligiblePages(pages)) >= 2

C12_ValuesKept ==
  [][Joins
       => \A id \in Kept :
            Truthy(Before(id).extractedData)
              => /\ Truthy(After(id).extractedData)
                 /\ RowCount(After(id)) = RowCount(Before(id))
                 /\ \A r \in 1..RowCount(Before(id)) :
                      \A j \in 1..Len(Rows(Before(id))[r]) :
                        /\ HasKey(Rows(After(id))[r], Rows(Before(id))[r][j].k)
                        /\ Value(Rows(After(id))[r], Rows(Before(id))[r][j].k)
                             = Rows(Before(id))[r][j].v]_vars

\* Reconciled pages: one still holds its null next to a filled-in column,
\* and the two rows of another are in the order the service gave them.
C12_Witness ==
  /\ Reconciled
  /\ \E p \in EligiblePages(pages) : \E r \in 1..RowCount(p) :
       /\ HasKey(Rows(p)[r], "city") /\ Value(Rows(p)[r], "city") = JsNull
       /\ HasKey(Rows(p)[r], "zip") /\ Value(Rows(p)[r], "zip") = ""
  /\ \E p \in EligiblePages(pages) :
       /\ RowCount(p) = 2
       /\ Value(Rows(p)[1], "name") = "y" /\ Value(Rows(p)[1], "city") = "z"
       /\ Value(Rows(p)[2], "name") = "w" /\ Value(Rows(p)[2], "city") = "v"

\* How many eligible pages have c rows.
Freq(pgs, c) == Cardinality({p \in EligiblePages(pgs) : RowCount(p) = c})
Counts(pgs) == {RowCount(p) : p \in EligiblePages(pgs)}
MostFrequent(pgs) == {c \in Counts(pgs) : \A d \in Counts(pgs) : Freq(pgs, c) >= Freq(pgs, d)}

\* The warnings of the eligible pages are those of the mode m.
WarningsOf(pgs, m) ==
  \A p \in EligiblePages(pgs) :
    p.consistencyWarning =
      IF RowCount(p) # m THEN Some(Warning(RowCount(p), m)) ELSE Undefined

\* C13: after the reconciler runs with at least two eligible pages, an
\* eligible page carries a warning if and only if its row count differs from
\* the most frequent row count of the eligible pages, whatever it carried
\* before.
C13_WarningIffNotMode ==
  [][(Joins /\ Cardinality(EligiblePages(pages)) >= 2)
       => \E m \in MostFrequent(pages) : WarningsOf(pages', m)]_vars

\* Three reconciled pages: the two of one row carry no warning, one of them
\* the page with the filled column of an earlier reconciliation, and the page
\* of two rows is flagged.
C13_Witness ==
  /\ Reconciled
  /\ Cardinality(EligiblePages(pages)) = 3
  /\ Cardinality({p \in EligiblePages(pages) :
                    RowCount(p) = 1 /\ p.consistencyWarning = Undefined}) = 2
  /\ \E p \in EligiblePages(pages) : p.consistencyWarning = Some(Warning(2, 1))

\* The row counts of the eligible pages, in page order.
CountSeq(pgs) ==
  [i \in 1..Len(SelectSeq(pgs, Eligible)) |-> RowCount(SelectSeq(pgs, Eligible)[i])]

\* How often c occurs among the first i counts.
Occ(counts, c, i) == Cardinality({j \in 1..i : counts[j] = c})
Range(counts) == {counts[i] : i \in 1..Len(counts)}
MaxFreq(counts) ==
  CHOOSE f \in 0..Len(counts) :
    /\ \A c \in Range(counts) : Occ(counts, c, Len(counts)) <= f
    /\ \E c \in Range(counts) : Occ(counts, c, Len(counts)) = f
Tied(counts) == {c \in Range(counts) : Occ(counts, c, Len(counts)) = MaxFreq(counts)}

\* Where c is encountered first, and where it reaches the highest frequency.
FirstIndex(counts, c) == CHOOSE i \in 1..Len(counts) : counts[i] = c /\ Occ(counts, c, i) = 1
ReachIndex(counts, c) ==
  CHOOSE i \in 1..Len(counts) : counts[i] = c /\ Occ(counts, c, i) = MaxFreq(counts)

FirstSeenTied(counts) ==
  CHOOSE c \in Tied(counts) :
    \A d \in Tied(counts) : FirstIndex(counts, c) <= FirstIndex(counts, d)
FirstToReach(counts) ==
  CHOOSE c \in Tied(counts) :
    \A d \in Tied(counts) : ReachIndex(counts, c) <= ReachIndex(counts, d)

\* Several row counts tie for the highest frequency among the eligible pages.
TieAmong(pgs) ==
  /\ Cardinality(EligiblePages(pgs)) >= 2
  /\ Cardinality(Tied(CountSeq(pgs))) >= 2

\* C14 as stated: when several row counts tie for the highest frequency,
\* the mode is the tied row count that is encountered first in page order.
C14_FirstSeenTied ==
  [][(Joins /\ TieAmong(pages))
       => WarningsOf(pages', FirstSeenTied(CountSeq(pages)))]_vars

\* C14, amended: when several row counts tie for the highest frequency, the
\* mode is the tied row count that reaches that frequency first in the scan
\* in page order (2, 3, 2, 3 gives 2; 2, 3, 3, 2 gives 3).
C14_FirstToReach ==
  [][(Joins /\ TieAmong(pages))
       => WarningsOf(pages', FirstToReach(CountSeq(pages)))]_vars

\* Reconciled pages with a tie in which the count met first is not the one
\* that reached the highest frequency first, flagged against the latter.
C14_Witness ==
  /\ Reconciled
  /\ TieAmong(pages)
  /\ FirstToReach(CountSeq(pages)) # FirstSeenTied(CountSeq(pages))
  /\ WarningsOf(pages, FirstToReach(CountSeq(pages)))

\* C15: with fewer than two eligible pages the reconciler leaves the
\* extractedData and the consistencyWarning of every page unchanged.
C15_NoOpBelowTwo ==
  [][(Joins /\ Cardinality(EligiblePages(pages)) < 2)
       => /\ PageIds(pages') = PageIds(pages)
          /\ \A id \in PageIds(pages) :
               /\ After(id).extractedData = Before(id).extractedData
               /\ After(id).consistencyWarning = Before(id).consistencyWarning]_vars

\* The batch is joined and the only eligible page still carries the warning
\* of an earlier reconciliation, or rows of unequal columns.
C15_Witness ==
  /\ batches = EmptyBag
  /\ globalStatus = "idle"
  /\ Cardinality(EligiblePages(pages)) = 1
  /\ Len(pages) >= 2
  /\ \E p \in EligiblePages(pages) :
       \/ p.consistencyWarning = Some(Warning(1, 2))
       \/ RowCount(p) = 2 /\ Keys(Rows(p)[1]) # Keys(Rows(p)[2])

\* C16: the reconciler leaves every non-eligible page unchanged in all its
\* fields, and such a page adds nothing to the columns or to the mode: the
\* columns of a reconciled row are its own and those of the eligible pages,
\* and the warnings are those of a most frequent row count of the eligible
\* pages.
C16_NonEligibleUntouched ==
  [][Joins
       => /\ \A id \in Kept : ~Eligible(Before(id)) => After(id) = Before(id)
          /\ \A id \in EligibleIds(pages) : \A r \in 1..RowCount(After(id)) :
               Keys(Rows(After(id))[r]) \subseteq AllKeys(pages)
          /\ Cardinality(EligiblePages(pages)) >= 2
               => \E m \in MostFrequent(pages) : WarningsOf(pages', m)]_vars

\* Reconciled pages after pages that are idle, in error and extracting, more
\* of them than pages of any one row count.
C16_Witness ==
  /\ Reconciled
  /\ Len(pages) = 4
  /\ pages[1].status \in {"idle", "error", "extracting"}
  /\ pages[2].status \in {"idle", "error", "extracting"}
  /\ ~Truthy(pages[1].extractedData) /\ ~Truthy(pages[2].extractedData)
  /\ RowCount(pages[3]) = 1 /\ RowCount(pages[4]) = 1
  /\ pages[3].consistencyWarning = Undefined
  /\ pages[4].consistencyWarning = Undefined

----------------------------------------------------------------------------
(* Extractions in flight *)

OutstandingCalls == BagToSet(singles) \cup BatchCalls

\* The number of extraction-service calls outstanding for a page id.
SingleCount(id) ==
  BagCardinality([c \in {x \in BagToSet(singles) : x.pageId = id} |-> singles[c]])
BatchCount(id) ==
  BagCardinality([b \in {x \in BagToSet(batches) : \E c \in x.calls : c.pageId = id} |->
                    batches[b] * Cardinality({c \in b.calls : c.pageId = id})])
CallCount(id) == SingleCount(id) + BatchCount(id)

\* C17: when the extraction of a deleted page resolves, with a success or a
\* failure, the page sequence is unchanged: the page is not re-added and no
\* remaining page is modified.
C17_DeletedNotRevived ==
  [][\A c \in OutstandingCalls \ OutstandingCalls' :
       c.pageId \notin PageIds(pages) => pages' = pages]_vars

\* The extraction of a deleted page is outstanding while the other page of
\* the session holds its rows.
C17_Witness ==
  /\ \E c \in OutstandingCalls : c.pageId \notin PageIds(pages)
  /\ \E p \in Pages : p.status = "complete" /\ Truthy(p.extractedData)

\* C18: at most one extraction-service call is outstanding per page, and a
\* page of the session with a call outstanding is still extracting: no new
\* extraction of it begins before the result is written.
C18_OneCallPerPage ==
  /\ \A id \in 1..(nextId - 1) : CallCount(id) <= 1
  /\ \A p \in Pages : CallCount(p.id) = 1 <=> p.status = "extracting"

\* A page that failed before is being extracted again, from the image
\* processor, while a batch call of another page is outstanding.
C18_Witness ==
  /\ \E p \in Pages :
       /\ p.status = "extracting" /\ Truthy(p.errorMessage)
       /\ SingleCount(p.id) = 1
  /\ \E p \in Pages : p.status = "extracting" /\ BatchCount(p.id) = 1

\* C19: every status change of a page follows the per-page state machine:
\* complete or error only from extracting, extracting only from idle,
\* complete or error, idle only at creation or from complete or error.
C19_StatusMachine ==
  [][/\ \A id \in PageIds(pages') \ PageIds(pages) : After(id).status = "idle"
     /\ \A id \in Kept :
          Before(id).status # After(id).status
            => /\ After(id).status \in {"idle", "extracting", "complete", "error"}
               /\ After(id).status \in {"complete", "error"}
                    => Before(id).status = "extracting"
               /\ After(id).status = "extracting"
                    => Before(id).status \in {"idle", "complete", "error"}
               /\ After(id).status = "idle"
                    => Before(id).status \in {"complete", "error"}]_vars

\* A page has been through idle, extracting, error, extracting, complete and
\* is idle again after a reset; another page is complete.
C19_Witness ==
  /\ \E p \in Pages :
       /\ p.status = "idle" /\ Truthy(p.errorMessage)
       /\ p.processedImage # Some(p.originalImage)
  /\ \E p \in Pages : p.status = "complete"

\* A step resets this page.
Resets(id) == Before(id).status \in {"complete", "error"} /\ After(id).status = "idle"

\* C20: resetting a page that is complete or error sets its status to idle,
\* clears its extractedData, its errorMessage and its consistencyWarning,
\* and changes no other page.
C20_ResetClears ==
  [][\A id \in Kept :
       Resets(id)
         => /\ After(id) = [Before(id) EXCEPT !.status = "idle",
                                              !.extractedData = Null,
                                              !.errorMessage = Null,
                                              !.consistencyWarning = Undefined]
            /\ PageIds(pages') = PageIds(pages)
            /\ \A o \in PageIds(pages) \ {id} : After(o) = Before(o)]_vars

----------------------------------------------------------------------------
(* The image processor *)

\* The processedImage of this page is overwritten in this step.
Overwrites(id) == After(id).processedImage # Before(id).processedImage

\* C21: applyPreprocessing sets the page's processedImage to the new image
\* and starts an extraction of that page whose request carries the new
\* image; processedImage is never overwritten without an extraction of the
\* page being started.
C21_PreprocessThenExtract ==
  [][/\ singles' # singles /\ BagCardinality(singles') > BagCardinality(singles)
          => \E c \in BagToSet(singles') :
               /\ singles' = singles (+) One(c)
               /\ c.pageId \in Kept
               /\ After(c.pageId).processedImage = Some(c.image)
               /\ After(c.pageId).status = "extracting"
               /\ c.image.filter \in Filters
     /\ \A id \in Kept :
          Overwrites(id)
            => /\ singles' = singles (+) One(Call(id, After(id).processedImage[1]))
               /\ After(id).status = "extracting"]_vars

\* A page is being extracted from the image processor: it holds the filtered
\* image and the outstanding request carries that image.
C21_Witness ==
  \E p \in Pages :
    /\ p.status = "extracting"
    /\ Truthy(p.processedImage)
    /\ p.processedImage # Some(p.originalImage)
    /\ BagIn(Call(p.id, p.processedImage[1]), singles)

----------------------------------------------------------------------------
(* Ingestion *)

\* An ingestion commits in this step.
Commits == Len(uploads') < Len(uploads)

\* The file lists whose ingestion may be the one that commits.
Committed == {uploads[u] : u \in {v \in 1..Len(uploads) : uploads' = RemoveAt(uploads, v)}}

\* The records a file is to contribute: its rasterized pages, itself, none.
Cnt(f) ==
  IF ~f.ok THEN 0
  ELSE IF f.type = "application/pdf" THEN f.n
  ELSE IF f.type = "text/plain" THEN 0
  ELSE 1

\* The records the first k files contribute.
RECURSIVE SumCnt(_, _)
SumCnt(files, k) == IF k = 0 THEN 0 ELSE Cnt(files[k]) + SumCnt(files, k - 1)

\* The idx-th record of the k-th file, after the commit.
Record(files, k, idx) == pages'[Len(pages) + SumCnt(files, k - 1) + idx]

\* C22: ingesting a sequence of files appends, in file order, one record per
\* rasterized page of each PDF, named "<file name> - Page <n>" with n from 1
\* in document order, one record named after the file for each image file,
\* and no record for a file of another type.
C22_RecordsInFileOrder ==
  [][Commits
       => \E files \in Committed :
            /\ Len(pages') = Len(pages) + SumCnt(files, Len(files))
            /\ \A k \in 1..Len(files) : \A idx \in 1..Cnt(files[k]) :
                 /\ Record(files, k, idx).name =
                      IF files[k].type = "application/pdf"
                        THEN <<files[k].name, " - Page ", idx>>
                        ELSE <<files[k].name>>
                 /\ Record(files, k, idx).originalImage.src = files[k].name
                 /\ Record(files, k, idx).originalImage.page =
                      IF files[k].type = "application/pdf" THEN idx ELSE 0]_vars

\* The session holds the two pages of b.pdf, in document order, and after
\* them the image of a later ingestion.
C22_Witness ==
  /\ Len(pages) = 3
  /\ pages[1].name = <<"b.pdf", " - Page ", 1>>
  /\ pages[2].name = <<"b.pdf", " - Page ", 2>>
  /\ pages[3].name = <<"g.png">>

\* C23: when decoding or rasterizing one file of an upload fails, that file
\* contributes no record, every other file of the upload is still ingested,
\* no existing page is changed and the global status returns to idle.
C23_FailureSkipsFile ==
  [][Commits
       => /\ SubSeq(pages', 1, Len(pages)) = pages
          /\ globalStatus' = "idle"
          /\ \E files \in Committed :
               \A k \in 1..Len(files) :
                 LET made == {i \in (Len(pages) + 1)..Len(pages') :
                                pages'[i].originalImage.src = files[k].name}
                 IN IF files[k].ok /\ files[k].type # "text/plain"
                      THEN Cardinality(made) = IF files[k].type = "application/pdf"
                                                 THEN files[k].n ELSE 1
                      ELSE made = {}]_vars

\* The upload of c.txt, d.pdf, f.png and g.png has committed after a.png
\* was ingested: g.png is the only record it made.
C23_Witness ==
  /\ Len(pages) = 2
  /\ pages[1].name = <<"a.png">>
  /\ pages[2].name = <<"g.png">>
  /\ globalStatus = "idle"
  /\ uploads = <<>>

\* C24: every record created by ingestion starts idle, with null
\* extractedData, null errorMessage and processedImage equal to
\* originalImage; the first new record becomes the selected page if no page
\* is selected at the commit, and the selection is unchanged otherwise.
C24_NewRecordsIdle ==
  [][Commits
       => /\ \A i \in (Len(pages) + 1)..Len(pages') :
               /\ pages'[i].status = "idle"
               /\ pages'[i].extractedData = Null
               /\ pages'[i].errorMessage = Null
               /\ pages'[i].processedImage = Some(pages'[i].originalImage)
          /\ selectedPageId' =
               IF selectedPageId # NoId THEN selectedPageId
               ELSE IF Len(pages') > Len(pages) THEN pages'[Len(pages) + 1].id
               ELSE NoId]_vars

\* Two ingestions have committed and the page of the first is still the
\* selected one.
C24_Witness ==
  /\ Len(pages) = 3
  /\ pages[1].name = <<"a.png">>
  /\ pages[2].name = <<"p.pdf", " - Page ", 1>>
  /\ pages[3].name = <<"q.png">>
  /\ selectedPageId = pages[1].id
  /\ \A i \in 1..3 : pages[i].status = "idle"

\* C25: in every reachable state no two pages of the session have the same
\* id, and an id that was assigned is not assigned to a later page.
C25_UniqueIds ==
  /\ [](\A i, j \in 1..Len(pages) : i # j => pages[i].id # pages[j].id)
  /\ [][\A i \in (Len(pages) + 1)..Len(pages') :
           Commits => pages'[i].id \notin PageIds(pages)]_vars

----------------------------------------------------------------------------
(* Export *)

Exports == Len(downloads') > Len(downloads)
Exported == downloads'[Len(downloads')]

RECURSIVE EligibleRows(_)
EligibleRows(pgs) ==
  IF pgs = <<>> THEN 0
  ELSE (IF Eligible(Head(pgs)) THEN RowCount(Head(pgs)) ELSE 0) + EligibleRows(Tail(pgs))

\* C26: when no page is eligible, or the eligible pages have no row at all,
\* an export (multi-sheet or master-sheet) shows the nothing-to-export
\* notice and writes no file.
C26_NothingToExport ==
  [][Exports /\ EligibleRows(pages) = 0
       => /\ Exported = Alert(NoExportData)
          /\ Len(downloads') = Len(downloads) + 1]_vars

\* Both exports have answered with the notice: once with no eligible page,
\* once with an eligible page of no row.
C26_Witness ==
  /\ downloads # <<>>
  /\ downloads[Len(downloads)].effect = "alert"
  /\ EligibleRows(pages) = 0
  /\ \E p \in Pages : Eligible(p) /\ RowCount(p) = 0

----------------------------------------------------------------------------
(* Concurrency of a batch *)

Launches == BagCardinality(batches') > BagCardinality(batches)
SelectedIds == {idlePages(pages)[i].id : i \in 1..Len(idlePages(pages))}

\* C27: the click that starts a batch sets every selected page to
\* extracting and launches its call before any result of the batch is
\* written, and afterwards any outstanding call of the batch may be the next
\* one to write its result, whatever the position of its page.
C27_ConcurrentLaunch ==
  /\ [][Launches
          => \A id \in SelectedIds :
               /\ After(id).status = "extracting"
               /\ After(id).extractedData = Before(id).extractedData
               /\ \E c \in BatchCalls' \ BatchCalls : c.pageId = id]_vars
  /\ [](\A b \in BagToSet(batches) : \A c \in b.calls :
          \A data \in Tables : ENABLED BatchCallSucceeds(b, c, data))

\* In a first batch the result of a later page is written while the call of
\* an earlier page is outstanding.
C27_Witness ==
  /\ \A p \in Pages : p.errorMessage = Null
  /\ \E c \in BatchCalls : \E p \in Pages :
       /\ p.id > c.pageId
       /\ p.status = "complete"
       /\ PageById(pages, c.pageId).status = "extracting"

\* C28: the commit at the end of a batch reconciles the pages of the session
\* as they are at that moment: the sequence keeps exactly its pages in their
\* order (those ingested meanwhile too, none that was deleted), a page that
\* is not eligible at that moment (idle after a reset, extracting on a call
\* of its own, ...) is left as it is, and every page eligible at that
\* moment, whichever extraction completed it, is reconciled with the others.
C28_CommitFromCurrentPages ==
  [][Joins
       => /\ Len(pages') = Len(pages)
          /\ \A i \in 1..Len(pages) :
               /\ pages'[i].id = pages[i].id
               /\ ~Eligible(pages[i]) => pages'[i] = pages[i]
               /\ Eligible(pages[i])
                    => Eligible(pages'[i]) /\ RowCount(pages'[i]) = RowCount(pages[i])
          /\ IF Cardinality(EligibleIds(pages)) >= 2
               THEN SameColumns(pages') /\ OneMode(pages')
               ELSE pages' = pages]_vars

\* A batch whose calls have all been answered is about to commit, while a
\* page that started its own extraction during the batch is still
\* extracting next to a page the batch completed.
C28_Witness ==
  /\ \E b \in BagToSet(batches) : AllSettled(b)
  /\ \E c \in BagToSet(singles) :
       HasPage(pages, c.pageId) /\ PageById(pages, c.pageId).status = "extracting"
  /\ \E p \in Pages : Eligible(p)

----------------------------------------------------------------------------
(* Global status *)

\* C29: in every reachable state the global status is extracting exactly
\* when a batch is in flight (a launched call unanswered, or the commit of
\* its reconciliation still to come), ingestions during the batch included.
C29_ExtractingIffBatch ==
  (batches # EmptyBag) <=> (globalStatus = "extracting")

----------------------------------------------------------------------------
(* Growth of the page sequence *)

Ids(pgs) == [i \in 1..Len(pgs) |-> pgs[i].id]

\* C30: a step either leaves the pages and their order as they are, or is
\* the commit of an ingestion and appends pages, or is a deletion and
\* removes exactly one page, the selected one; no other step (extraction,
\* batch, image processor, reset, reconciler, answer of the service) changes
\* the number or the order of the pages.
C30_GrowsOnlyByIngestion ==
  [][\/ Ids(pages') = Ids(pages)
     \/ /\ Commits
        /\ Len(pages') > Len(pages)
        /\ SubSeq(Ids(pages'), 1, Len(pages)) = Ids(pages)
     \/ /\ HasSelectedPage
        /\ selectedPageId' = NoId
        /\ UNCHANGED <<globalStatus, uploads, singles, batches>>
        /\ \E i \in 1..Len(pages) :
             /\ pages[i].id = selectedPageId
             /\ pages' = RemoveAt(pages, i)]_vars

----------------------------------------------------------------------------
(* Frame of the page fields *)

\* C31: no step changes the originalImage of a page that stays in the
\* session, whether it applies the image processor, starts or settles an
\* extraction, resets the page or reconciles.
C31_OriginalImageKept ==
  [][\A id \in Kept : After(id).originalImage = Before(id).originalImage]_vars

\* A page extracted from the image processor and reconciled with another
\* page holds a filtered processedImage next to its unfiltered original.
C31_Witness ==
  \E p \in Pages :
    /\ p.status = "complete"
    /\ Truthy(p.consistencyWarning)
    /\ Truthy(p.processedImage)
    /\ p.processedImage[1].filter \in Filters
    /\ p.originalImage.filter = "none"

----------------------------------------------------------------------------
(* Failures of the extraction service *)

\* The failures of a call: no API key, a transport or quota error, a
\* response without text, a text that is not JSON.
Fails(key, r) ==
  \/ ~key
  \/ Truthy(r.error)
  \/ ~Truthy(r.text)
  \/ r.text = Some("")
  \/ ~IsJson(r.text[1])

\* This step is the answer r of the service to the call c.
Answered(c, r) ==
  \/ SingleAnswered(c, r)
  \/ \E b \in BagToSet(batches) : BatchCallAnswered(b, c, r)

\* C32: whichever way the service call of a page of the session fails (no
\* API key, transport or quota error, empty response text, text that is not
\* JSON), the step that settles the call leaves the page in status error
\* with an error message, not extracting and not complete.
C32_FailureEndsInError ==
  [][\A c \in OutstandingCalls : \A r \in Responses :
       (Fails(apiKey, r) /\ Answered(c, r) /\ HasPage(pages, c.pageId))
         => /\ After(c.pageId).status = "error"
            /\ Truthy(After(c.pageId).errorMessage)
            /\ After(c.pageId).errorMessage[1] # ""]_vars

\* With an API key, one page failed on a text that is not JSON and another
\* on a quota error.
C32_Witness ==
  /\ apiKey
  /\ \E p \in Pages :
       /\ p.status = "error"
       /\ p.errorMessage = Some(SyntaxError("I cannot read this image"))
  /\ \E p \in Pages :
       /\ p.status = "error"
       /\ p.errorMessage = Some("429 RESOURCE_EXHAUSTED")

----------------------------------------------------------------------------
(* Rows and the image they were read from *)

\* C33: in every reachable state a complete page with no extraction
\* outstanding holds the rows the service returned for the page's current
\* processedImage, not those of a request sent with an earlier image.
C33_RowsOfCurrentImage ==
  \A p \in Pages :
    (p.status = "complete" /\ ~Outstanding(p.id))
      => /\ Truthy(p.processedImage)
         /\ p.extractedData = Some(TableOf(p.processedImage[1]))

\* A page whose extraction of the unfiltered image failed is complete with
\* the rows of the filtered image; another page is complete with the rows
\* of its unfiltered image.
C33_Witness ==
  /\ \E p \in Pages :
       /\ p.status = "complete" /\ ~Outstanding(p.id)
       /\ Truthy(p.errorMessage)
       /\ p.processedImage[1].filter \in Filters
  /\ \E p \in Pages :
       /\ p.status = "complete" /\ ~Outstanding(p.id)
       /\ p.processedImage = Some(p.originalImage)

----------------------------------------------------------------------------
(* Interleaved updates *)

\* The extraction-service calls that are answered in this step.
Settled == OutstandingCalls \ OutstandingCalls'

\* C34: no update is lost when operations interleave.  The step that writes
\* the answer of a call keeps every page of the session in its place, every
\* other page as it is, and on the page of the call every field but status
\* and extractedData (success) or status and errorMessage (failure); the
\* commit of an ingestion keeps every page already there as it is, and a
\* deletion every page but the deleted one: whatever was written while the
\* call was outstanding is still there after it resolves.
C34_NoLostUpdate ==
  [][/\ \A c \in Settled :
          /\ Len(pages') = Len(pages)
          /\ \A i \in 1..Len(pages) :
               IF pages[i].id # c.pageId THEN pages'[i] = pages[i]
               ELSE \/ pages'[i] = [pages[i] EXCEPT !.status = "complete",
                                                   !.extractedData = pages'[i].extractedData]
                    \/ pages'[i] = [pages[i] EXCEPT !.status = "error",
                                                   !.errorMessage = pages'[i].errorMessage]
     /\ Commits => SubSeq(pages', 1, Len(pages)) = pages
     /\ Len(pages') < Len(pages)
          => pages' = SelectSeq(pages, LAMBDA p : p.id \in PageIds(pages'))]_vars

\* All the calls of a batch have been answered and one page is complete,
\* next to a page that became idle while the batch was running (the batch
\* took every idle page when it started).
C34_Witness ==
  /\ \E b \in BagToSet(batches) : AllSettled(b)
  /\ \E p \in Pages : p.status = "complete" /\ Truthy(p.extractedData)
  /\ \E p \in Pages : p.status = "idle"

----------------------------------------------------------------------------
(* Selection *)

\* C35: in every reachable state the selection is none or the id of a page
\* of the session, and a step that deletes a page deletes the selected one
\* and sets the selection to none.
C35_SelectionInSession ==
  /\ [](selectedPageId = NoId \/ selectedPageId \in PageIds(pages))
  /\ [][Len(pages') < Len(pages)
          => /\ selectedPageId \notin PageIds(pages')
             /\ selectedPageId' = NoId]_vars

\* The selected page of a session of two pages has been deleted: one page
\* is left and none is selected.
C35_Witness ==
  /\ selectedPageId = NoId
  /\ Len(pages) = 1
  /\ nextId = 3

----------------------------------------------------------------------------
(* Algebra of the reconciler *)

\* The reconciler has run on the pages of the session.
Joined == batches = EmptyBag

\* C36: the reconciler is idempotent: applied to the pages it has just
\* produced, it changes no page's extractedData and no page's
\* consistencyWarning.
C36_Idempotent ==
  Joined
    => \A i \in 1..Len(pages) :
         /\ checkConsistency(pages)[i].extractedData = pages[i].extractedData
         /\ checkConsistency(pages)[i].consistencyWarning = pages[i].consistencyWarning

\* The reconciler has filled a column and set a warning: its first
\* application was not the identity.
C36_Witness ==
  /\ Joined
  /\ Cardinality(EligiblePages(pages)) >= 2
  /\ \E p \in EligiblePages(pages) : Truthy(p.consistencyWarning)
  /\ \E p \in EligiblePages(pages) : \E r \in 1..RowCount(p) :
       \E j \in 1..Len(Rows(p)[r]) : Rows(p)[r][j].v = ""

\* C37: the reconciler changes only extractedData and consistencyWarning of
\* an eligible page: the step that runs it keeps the length and the order
\* of the page sequence and, on every eligible page, the id, name,
\* originalImage, processedImage, status and errorMessage.
C37_ReconcilerFrame ==
  [][Joins
       => /\ Len(pages') = Len(pages)
          /\ \A i \in 1..Len(pages) :
               Eligible(pages[i])
                 => pages'[i] =
                      [pages[i] EXCEPT !.extractedData = pages'[i].extractedData,
                                       !.consistencyWarning = pages'[i].consistencyWarning]]_vars

\* A reconciled page (it carries a warning) still holds the filtered image
\* of the image processor and the message of an earlier failure.
C37_Witness ==
  /\ batches = EmptyBag
  /\ \E p \in Pages :
       /\ Eligible(p)
       /\ Truthy(p.consistencyWarning)
       /\ Truthy(p.errorMessage)
       /\ p.processedImage # Some(p.originalImage)

----------------------------------------------------------------------------
(* Batch with nothing to extract *)

\* The Batch Process button can be clicked and no page is idle or error.
NothingToExtract ==
  /\ Len(pages) > 0
  /\ ~isGlobalProcessing
  /\ Len(idlePages(pages)) = 0

\* C38: extractAll triggered when no page is idle or error is a no-op: the
\* click is possible and changes nothing, neither a page nor the global
\* status, and runs no reconciliation, also when complete pages have not
\* been reconciled with each other.
C38_EmptyBatchNoOp ==
  NothingToExtract
    => /\ ENABLED processAll
       /\ ~ENABLED (processAll /\ vars' # vars)

\* Two pages extracted one by one from the image processor are complete
\* with different columns, and no page is left for a batch.
C38_Witness ==
  /\ NothingToExtract
  /\ Cardinality(EligiblePages(pages)) >= 2
  /\ ~SameColumns(pages)

----------------------------------------------------------------------------
(* Reconciliation and single extractions *)

\* The calls of the image processor that are answered in this step.
SettledSingles == {c \in BagToSet(singles) : singles' = singles (-) One(c)}

\* C39: the reconciler runs only as the last step of a batch.  The answer
\* to an extraction started from the image processor writes the fields of
\* its page only, stores the rows as the service returned them and touches
\* no consistencyWarning; and a step that sets a warning, or rewrites the
\* rows of a page that stays complete, is the commit of a batch.
C39_ReconcileOnlyAtBatchEnd ==
  [][/\ \A c \in SettledSingles :
          /\ Len(pages') = Len(pages)
          /\ \A i \in 1..Len(pages) :
               /\ pages'[i].consistencyWarning = pages[i].consistencyWarning
               /\ pages[i].id # c.pageId => pages'[i] = pages[i]
               /\ (pages[i].id = c.pageId /\ pages'[i].status = "complete")
                    => pages'[i].extractedData \in {Some(t) : t \in Tables}
     /\ \A id \in Kept :
          ( \/ /\ After(id).consistencyWarning # Before(id).consistencyWarning
               /\ Truthy(After(id).consistencyWarning)
            \/ /\ Before(id).status = "complete"
               /\ After(id).status = "complete"
               /\ After(id).extractedData # Before(id).extractedData )
            => Joins]_vars

\* A page extracted from the image processor is complete next to a page
\* with other columns, no call and no batch is left, and no warning has
\* been set: its rows are not reconciled.
C39_Witness ==
  /\ batches = EmptyBag
  /\ singles = EmptyBag
  /\ \A p \in Pages : ~Truthy(p.consistencyWarning)
  /\ \E p, q \in EligiblePages(pages) :
       /\ p.processedImage # Some(p.originalImage)
       /\ RowCount(p) # RowCount(q)
       /\ \E r \in 1..RowCount(q) : \A t \in 1..RowCount(p) :
            Keys(Rows(q)[r]) # Keys(Rows(p)[t])

====
